---- MODULE Spec2Model ----
(***************************************************************************)
(* Model of the outfit-analysis backend: the upload handler, the           *)
(* background analysis Driver (utils/llm.py analyze_outfit_image), the     *)
(* status write (database/db.py update_analysis_status), the delete, tag,  *)
(* favorite and reading handlers, and the stores they touch.  The Postgres *)
(* outfits table (database/postgres.py) and the SQLite outfits table       *)
(* (database/db.py, config.DB_FILE) are two separate stores, as they are   *)
(* in the source.                                                          *)
(***************************************************************************)
EXTENDS Integers, Sequences, FiniteSets, TLC

\* ---------------------------------------------------------------------
\* Bounds of the model
\* ---------------------------------------------------------------------
MaxOutfits == 2      \* record ids
MaxTasks == 1        \* Driver invocations when each record is analysed once
MaxInvocations == 2  \* Driver invocations when a record may be analysed again
MaxTextLen == 3      \* tokens of a provider response
MaxColors == 2       \* elements of a colors list canonicalized on its own

\* ---------------------------------------------------------------------
\* Strings are sequences of one-character strings, so that strip(),
\* lower(), startswith() and len() are computed as Python computes them.
\* A list element that is not a Python str (a JSON number) is written as
\* a sequence whose first entry is the marker "NUM".
\* ---------------------------------------------------------------------
UpperChars == <<"A","B","C","D","E","F","G","H","I","J","K","L","M",
                "N","O","P","Q","R","S","T","U","V","W","X","Y","Z">>
LowerChars == <<"a","b","c","d","e","f","g","h","i","j","k","l","m",
                "n","o","p","q","r","s","t","u","v","w","x","y","z">>

IsStr(e) == Len(e) = 0 \/ e[1] # "NUM"

LowerChar(c) ==
  IF \E i \in 1..Len(UpperChars) : UpperChars[i] = c
  THEN LowerChars[CHOOSE i \in 1..Len(UpperChars) : UpperChars[i] = c]
  ELSE c

Lower(s) == [i \in 1..Len(s) |-> LowerChar(s[i])]

\* str.strip(): drop leading and trailing whitespace
Strip(s) ==
  LET nonws == {i \in 1..Len(s) : s[i] # " "}
  IN IF nonws = {} THEN <<>>
     ELSE LET lo == CHOOSE i \in nonws : \A j \in nonws : i <= j
              hi == CHOOSE i \in nonws : \A j \in nonws : i >= j
          IN SubSeq(s, lo, hi)

\* src/utils/llm.py:18-55
COLOR_NAME_MAP ==
  {
    [name |-> <<"r","e","d">>, hex |-> <<"#","E","F","4","4","4","4">>],
    [name |-> <<"c","r","i","m","s","o","n">>, hex |-> <<"#","D","C","1","4","3","C">>],
    [name |-> <<"d","a","r","k"," ","r","e","d">>, hex |-> <<"#","8","B","0","0","0","0">>],
    [name |-> <<"p","i","n","k">>, hex |-> <<"#","E","C","4","8","9","9">>],
    [name |-> <<"r","o","s","e">>, hex |-> <<"#","F","4","3","F","5","E">>],
    [name |-> <<"o","r","a","n","g","e">>, hex |-> <<"#","F","9","7","3","1","6">>],
    [name |-> <<"a","m","b","e","r">>, hex |-> <<"#","F","B","B","F","2","4">>],
    [name |-> <<"y","e","l","l","o","w">>, hex |-> <<"#","F","B","B","F","2","4">>],
    [name |-> <<"l","i","m","e">>, hex |-> <<"#","8","4","C","C","1","6">>],
    [name |-> <<"g","r","e","e","n">>, hex |-> <<"#","2","2","C","5","5","E">>],
    [name |-> <<"e","m","e","r","a","l","d">>, hex |-> <<"#","1","0","B","9","8","1">>],
    [name |-> <<"t","e","a","l">>, hex |-> <<"#","1","4","B","8","A","6">>],
    [name |-> <<"c","y","a","n">>, hex |-> <<"#","0","6","B","6","D","4">>],
    [name |-> <<"b","l","u","e">>, hex |-> <<"#","3","B","8","2","F","6">>],
    [name |-> <<"s","k","y"," ","b","l","u","e">>, hex |-> <<"#","0","E","A","5","E","9">>],
    [name |-> <<"i","n","d","i","g","o">>, hex |-> <<"#","4","F","4","6","E","5">>],
    [name |-> <<"p","u","r","p","l","e">>, hex |-> <<"#","A","8","5","5","F","7">>],
    [name |-> <<"v","i","o","l","e","t">>, hex |-> <<"#","7","C","3","A","E","D">>],
    [name |-> <<"m","a","g","e","n","t","a">>, hex |-> <<"#","D","9","4","6","E","F">>],
    [name |-> <<"w","h","i","t","e">>, hex |-> <<"#","F","F","F","F","F","F">>],
    [name |-> <<"g","r","a","y">>, hex |-> <<"#","6","B","7","2","8","0">>],
    [name |-> <<"g","r","e","y">>, hex |-> <<"#","6","B","7","2","8","0">>],
    [name |-> <<"d","a","r","k"," ","g","r","a","y">>, hex |-> <<"#","3","7","4","1","5","1">>],
    [name |-> <<"l","i","g","h","t"," ","g","r","a","y">>, hex |-> <<"#","D","1","D","5","D","B">>],
    [name |-> <<"b","l","a","c","k">>, hex |-> <<"#","0","0","0","0","0","0">>],
    [name |-> <<"n","a","v","y">>, hex |-> <<"#","0","0","0","0","8","0">>],
    [name |-> <<"b","r","o","w","n">>, hex |-> <<"#","9","2","4","0","0","E">>],
    [name |-> <<"g","o","l","d">>, hex |-> <<"#","F","F","D","7","0","0">>],
    [name |-> <<"s","i","l","v","e","r">>, hex |-> <<"#","C","0","C","0","C","0">>],
    [name |-> <<"b","e","i","g","e">>, hex |-> <<"#","F","5","F","5","D","C">>],
    [name |-> <<"c","r","e","a","m">>, hex |-> <<"#","F","F","F","D","D","0">>],
    [name |-> <<"o","l","i","v","e">>, hex |-> <<"#","8","0","8","0","0","0">>],
    [name |-> <<"m","a","r","o","o","n">>, hex |-> <<"#","8","0","0","0","0","0">>],
    [name |-> <<"p","e","a","c","h">>, hex |-> <<"#","F","F","D","A","B","9">>],
    [name |-> <<"l","a","v","e","n","d","e","r">>, hex |-> <<"#","E","6","E","6","F","A">>],
    [name |-> <<"c","h","a","r","c","o","a","l">>, hex |-> <<"#","3","6","4","5","4","F">>]
  }

FallbackGray == <<"#","9","C","A","3","A","F">>

InColorMap(c) == \E e \in COLOR_NAME_MAP : e.name = c
ColorMapGet(c) == (CHOOSE e \in COLOR_NAME_MAP : e.name = c).hex

\* one iteration of the loop of convert_color_names_to_hex; the element
\* is a str (a non-str element raises AttributeError at color.strip())
ConvertColor(color) ==
  LET c == Lower(Strip(color))
  IN IF Len(c) > 0 /\ c[1] = "#" /\ Len(c) = 7 THEN c
     ELSE IF InColorMap(c) THEN ColorMapGet(c)
     ELSE FallbackGray

convert_color_names_to_hex(colors) ==
  [i \in 1..Len(colors) |-> ConvertColor(colors[i])]

ConvertRaises(colors) == \E i \in 1..Len(colors) : ~IsStr(colors[i])

\* ---------------------------------------------------------------------
\* JSON values.  A member value is a string or a list of elements; an
\* object is a function from its keys to member values.
\* ---------------------------------------------------------------------
StrVal(s) == [list |-> FALSE, items |-> <<s>>]
ListVal(xs) == [list |-> TRUE, items |-> xs]

EmptyObj == [k \in {} |-> StrVal(<<>>)]

\* Python values that reach update_analysis_status as `results`, and the
\* TEXT column analysis_results: None / NULL, a dict, or a str holding
\* JSON text produced by `dumps` nested calls of json.dumps.
PyNone == [py |-> "None", dumps |-> 0, obj |-> EmptyObj]
PyDict(o) == [py |-> "dict", dumps |-> 0, obj |-> o]
NULL == PyNone

json_dumps(v) == [py |-> "str", dumps |-> v.dumps + 1, obj |-> v.obj]

\* Python truth value of `results`
Truthy(v) ==
  CASE v.py = "None" -> FALSE
    [] v.py = "dict" -> DOMAIN v.obj # {}
    [] OTHER -> TRUE

\* ---------------------------------------------------------------------
\* Response text of the provider: a sequence of tokens.  "{" and "}" are
\* the braces, " " is whitespace, "w" is any other character of prose,
\* and a member token stands for one well-formed `"key": value` member.
\* ---------------------------------------------------------------------
Members == {"D", "C1", "C2", "C3"}
Tokens == {"{", "}", " ", "w"} \cup Members

MemberKey(m) == IF m = "D" THEN "description" ELSE "colors"

Red == <<"R","e","d">>
Hex112233 == <<"#","1","1","2","2","3","3">>
NotAColor == <<"n","o","p","e">>
SpacedBlue == <<" ","B","l","u","e"," ">>
Seven == <<"NUM","7">>

MemberVal(m) ==
  CASE m = "D" -> StrVal(<<"o","k">>)
    [] m = "C1" -> ListVal(<<Red, Hex112233, NotAColor>>)
    [] m = "C2" -> StrVal(SpacedBlue)
    [] m = "C3" -> ListVal(<<Red, Seven>>)

RECURSIVE SeqsUpTo(_)
SeqsUpTo(n) ==
  IF n = 0 THEN {<<>>}
  ELSE LET shorter == SeqsUpTo(n - 1)
       IN shorter \cup {Append(s, t) : s \in {x \in shorter : Len(x) = n - 1}, t \in Tokens}

Texts == SeqsUpTo(MaxTextLen)

\* str.find / str.rfind: 0-based index, -1 when absent
Find(text, ch) ==
  LET hits == {i \in 1..Len(text) : text[i] = ch}
  IN IF hits = {} THEN -1
     ELSE (CHOOSE i \in hits : \A j \in hits : i <= j) - 1

\* variant: the closing brace is searched from the left
RFindFromLeft(text, ch) ==
  LET hits == {i \in 1..Len(text) : text[i] = ch}
  IN IF hits = {} THEN -1
     ELSE (CHOOSE i \in hits : \A j \in hits : i <= j) - 1

RFind(text, ch) ==
  LET hits == {i \in 1..Len(text) : text[i] = ch}
  IN IF hits = {} THEN -1
     ELSE (CHOOSE i \in hits : \A j \in hits : i >= j) - 1

\* text[a:b] for 0 <= a <= b <= len(text)
Slice(text, a, b) == SubSeq(text, a + 1, b)

RECURSIVE ObjOf(_)
ObjOf(ms) ==
  IF ms = <<>> THEN EmptyObj
  ELSE LET m == ms[Len(ms)]
       IN (MemberKey(m) :> MemberVal(m)) @@ ObjOf(SubSeq(ms, 1, Len(ms) - 1))

\* json.loads on a token sequence: an object is "{" members "}" with
\* optional whitespace between them, and a later member with the same key
\* replaces an earlier one
JsonValid(s) ==
  /\ Len(s) >= 2
  /\ s[1] = "{"
  /\ s[Len(s)] = "}"
  /\ \A i \in 2..(Len(s) - 1) : s[i] \in Members \cup {" "}

json_loads(s) == ObjOf(SelectSeq(SubSeq(s, 2, Len(s) - 1), LAMBDA t : t \in Members))

\* ---------------------------------------------------------------------
\* Normalizer part of analyze_outfit_image (llm.py:145-163): from the
\* provider's response text to the arguments of the status write.
\* `exc` is the exception class raised ("none" when none is), `kind`
\* names the path taken, `line` the call site of update_analysis_status,
\* `parsed` the object json.loads returned (on the success path).
\* ---------------------------------------------------------------------
Outcome(exc, kind, line, status, results, parsed) ==
  [exc |-> exc, kind |-> kind, line |-> line, status |-> status, results |-> results,
   parsed |-> parsed]

\* except-clause dispatch of the outer try (llm.py:166-177)
HandlerLine(exc) ==
  CASE exc = "JSONDecodeError" -> 169
    [] exc = "ValueError" -> 173
    [] OTHER -> 177

Raised(exc, kind) == Outcome(exc, kind, HandlerLine(exc), "failed", PyNone, EmptyObj)

CanonicalizeColors(analysis) ==
  IF "colors" \in DOMAIN analysis /\ analysis["colors"].list
  THEN [analysis EXCEPT !["colors"] =
          ListVal(convert_color_names_to_hex(analysis["colors"].items))]
  ELSE analysis

\* variant: a syntax error is repaired to an empty object instead of raised
NormalizeLenient(text) ==
  LET raw_text == Strip(text)
      json_start == Find(raw_text, "{")
      json_end == RFind(raw_text, "}")
      json_str == Slice(raw_text, json_start, json_end + 1)
      analysis == json_loads(json_str)
  IN IF raw_text = <<>> THEN Raised("ValueError", "empty")
     ELSE IF json_start = -1 \/ json_end = -1 \/ json_end <= json_start
          THEN Raised("ValueError", "extraction")
     ELSE IF ~JsonValid(json_str)
          THEN Outcome("none", "parse", 163, "completed", PyDict(EmptyObj), EmptyObj)
     ELSE IF "colors" \in DOMAIN analysis /\ analysis["colors"].list
             /\ ConvertRaises(analysis["colors"].items)
          THEN Raised("AttributeError", "canonicalize")
     ELSE Outcome("none", "success", 163, "completed",
                  PyDict(CanonicalizeColors(analysis)), analysis)

\* llm.py:151-155: the test that raises "No valid JSON object found"
ExtractionFails(raw_text) ==
  LET json_start == Find(raw_text, "{")
      json_end == RFind(raw_text, "}")
  IN json_start = -1 \/ json_end = -1 \/ json_end <= json_start

\* llm.py:156: raw_text[json_start:json_end + 1]
JsonStr(raw_text) ==
  Slice(raw_text, Find(raw_text, "{"), RFind(raw_text, "}") + 1)

Normalize(text) ==
  LET raw_text == Strip(text)
      json_str == JsonStr(raw_text)
      analysis == json_loads(json_str)
  IN IF raw_text = <<>> THEN Raised("ValueError", "empty")
     ELSE IF ExtractionFails(raw_text)
          THEN Raised("ValueError", "extraction")
     ELSE IF ~JsonValid(json_str) THEN Raised("JSONDecodeError", "parse")
     ELSE IF "colors" \in DOMAIN analysis /\ analysis["colors"].list
             /\ ConvertRaises(analysis["colors"].items)
          THEN Raised("AttributeError", "canonicalize")
     ELSE Outcome("none", "success", 163, "completed",
                  PyDict(CanonicalizeColors(analysis)), analysis)

\* ---------------------------------------------------------------------
\* State
\* ---------------------------------------------------------------------
VARIABLES
  pg,        \* Postgres table outfits (database/postgres.py): id -> row
  lite,      \* SQLite table outfits in DB_FILE (database/db.py): id -> row
  tasks,     \* Driver invocations, in order of scheduling
  usedIds,   \* uuid values already issued
  lastWrite, \* per SQLite row: the invocation whose UPDATE was applied last
  resp,      \* the last HTTP response sent, with the provider calls
             \* its handler made (`llm`: what each call gave, in order)
  favs,      \* Postgres table favorites: rows in insertion order
  assets,    \* public ids of the images held by the cloud store
  probe,     \* argument and result of a pure function under test
  inflight   \* per server process: the tag request it is handling, between
             \* its read of the stored tags and its UPDATE

vars == <<pg, lite, tasks, usedIds, lastWrite, resp, favs, assets, probe, inflight>>

OutfitIds == 1..MaxOutfits
Users == {"u1", "u2"}
UserInputs == Users \cup {" "}

CloudUrl == <<"h","t","t","p","s",":","/","/","c">>
LocalPath == <<"u","p","/","a">>
ImageRefs == {CloudUrl, LocalPath}

StartsWith(s, prefix) ==
  Len(s) >= Len(prefix) /\ SubSeq(s, 1, Len(prefix)) = prefix

IsUrl(image_path) ==
  \/ StartsWith(image_path, <<"h","t","t","p",":","/","/">>)
  \/ StartsWith(image_path, <<"h","t","t","p","s",":","/","/">>)

\* a row of the SQLite table as an earlier insert left it: the schema's
\* defaults analysis_status 'pending', analysis_results NULL
LegacyRow ==
  [user_id |-> "u1", image_path |-> LocalPath, name |-> "n", tags |-> <<>>,
   analysis_status |-> "pending", analysis_results |-> NULL]

NoResp == [op |-> "none", code |-> 0, id |-> 0, analysis_status |-> "", analysis |-> PyNone,
   llm |-> <<>>, body |-> ""]

NoProbe == [fn |-> "none"]

\* server processes that serve tag requests on one DB_FILE; every call of
\* get_outfit_tags and save_outfit_tags opens a connection of its own
\* (database/db.py:117, 133)
TagWorkers == {1, 2}

\* a process that is handling no tag request
Idle == [op |-> "idle", outfit_id |-> 0, tag |-> <<>>, updated |-> <<>>, code |-> 0]

NoRequests == [w \in TagWorkers |-> Idle]

Init ==
  /\ pg = [i \in {} |-> LegacyRow]
  /\ \E k \in 0..MaxOutfits : lite = [i \in 1..k |-> LegacyRow]
  /\ tasks = <<>>
  /\ usedIds = DOMAIN lite
  /\ lastWrite = [i \in OutfitIds |-> 0]
  /\ resp = NoResp
  /\ favs = <<>>
  /\ assets = {}
  /\ probe = NoProbe
  /\ inflight = NoRequests

\* ---------------------------------------------------------------------
\* Upload (routers/upload.py)
\* ---------------------------------------------------------------------
MAX_FILE_SIZE == 10 * 1024 * 1024
MinFileSize == 1024
ALLOWED_EXTENSIONS == {".jpg", ".jpeg", ".png", ".gif", ".webp"}

\* sample uploads: one acceptable file and one file per rejection
Files ==
  {[filename |-> "a.jpg", size |-> 2048],
   [filename |-> "", size |-> 2048],
   [filename |-> "a.txt", size |-> 2048],
   [filename |-> "a.jpg", size |-> MAX_FILE_SIZE + 1],
   [filename |-> "a.jpg", size |-> MinFileSize - 1]}
FileExt(filename) ==
  CASE filename = "a.jpg" -> ".jpg"
    [] filename = "a.txt" -> ".txt"
    [] OTHER -> ""

\* variant: no lower limit on the size
validate_file_no_minimum(filename, size) ==
  /\ FileExt(filename) \in ALLOWED_EXTENSIONS
  /\ ~(size > MAX_FILE_SIZE)

validate_file(filename, size) ==
  /\ FileExt(filename) \in ALLOWED_EXTENSIONS
  /\ ~(size > MAX_FILE_SIZE)
  /\ ~(size < MinFileSize)

\* uuid.uuid4(): a value never issued before
FreshIds == OutfitIds \ usedIds

NewTask(outfit_id, image_path, origin) ==
  [outfit_id |-> outfit_id, image_path |-> image_path, origin |-> origin,
   pc |-> "queued", line |-> 0, status |-> "", results |-> PyNone,
   kind |-> "none", parsed |-> EmptyObj, fetches |-> 0, calls |-> 0, updates |-> <<>>]

\* save_outfit_to_db: the INSERT names no analysis_results column
InsertedRow(user_id, image_url, public_id, filename) ==
  [user_id |-> user_id, image_path |-> image_url, image_filename |-> public_id,
   name |-> filename, tags |-> <<>>,
   analysis_status |-> "pending", analysis_results |-> NULL]

UploadResp(code, id, status) ==
  [op |-> "upload", code |-> code, id |-> id, analysis_status |-> status, analysis |-> PyNone,
   llm |-> <<>>, body |-> ""]

\* variant: the analysis is scheduled before the INSERT is attempted
UploadOutfitScheduleFirst(user_id, file, io) ==
  IF user_id = " " \/ file.filename = "" \/ ~validate_file(file.filename, file.size)
  THEN /\ resp' = UploadResp(400, 0, "")
       /\ UNCHANGED <<pg, lite, tasks, usedIds, lastWrite, favs, assets, probe, inflight>>
  ELSE IF io = "cloud_none"
  THEN /\ resp' = UploadResp(500, 0, "")
       /\ UNCHANGED <<pg, lite, tasks, usedIds, lastWrite, favs, assets, probe, inflight>>
  ELSE /\ FreshIds # {}
       /\ Len(tasks) < MaxTasks
       /\ LET outfit_id == CHOOSE i \in FreshIds : \A j \in FreshIds : i <= j
          IN /\ usedIds' = usedIds \cup {outfit_id}
             /\ assets' = assets \cup {outfit_id}
             /\ tasks' = Append(tasks, NewTask(outfit_id, CloudUrl, "upload"))
             /\ IF io # "db_error"
                THEN /\ pg' = (outfit_id :> InsertedRow(user_id, CloudUrl, outfit_id, file.filename)) @@ pg
                     /\ resp' = UploadResp(200, outfit_id, "pending")
                ELSE /\ resp' = UploadResp(500, 0, "")
                     /\ UNCHANGED pg
       /\ UNCHANGED <<lite, lastWrite, favs, probe, inflight>>

\* `io` is what the outside world does to this request: "ok", the cloud
\* upload returning nothing, or the INSERT raising
\* The cloud store names each stored image itself (unique_filename); the
\* name is written here as the number the upload takes from FreshIds.
UploadOutfitTagged(user_id, file, tags, io) ==
  IF user_id = " " \/ file.filename = "" \/ ~validate_file(file.filename, file.size)
  THEN /\ resp' = UploadResp(400, 0, "")
       /\ UNCHANGED <<pg, lite, tasks, usedIds, lastWrite, favs, assets, probe, inflight>>
  ELSE IF io = "cloud_none"
  THEN /\ resp' = UploadResp(500, 0, "")
       /\ UNCHANGED <<pg, lite, tasks, usedIds, lastWrite, favs, assets, probe, inflight>>
  ELSE /\ FreshIds # {}
       /\ Len(tasks) < MaxTasks
       /\ LET outfit_id == CHOOSE i \in FreshIds : \A j \in FreshIds : i <= j
          IN /\ usedIds' = usedIds \cup {outfit_id}
             /\ assets' = assets \cup {outfit_id}
             /\ IF io # "db_error"
                THEN /\ pg' = (outfit_id :>
                               [InsertedRow(user_id, CloudUrl, outfit_id, file.filename)
                                  EXCEPT !.tags = tags]) @@ pg
                     /\ tasks' = Append(tasks, NewTask(outfit_id, CloudUrl, "upload"))
                     /\ resp' = UploadResp(200, outfit_id, "pending")
                ELSE /\ resp' = UploadResp(500, 0, "")
                     /\ UNCHANGED <<pg, tasks>>
       /\ UNCHANGED <<lite, lastWrite, favs, probe, inflight>>

\* an upload whose form leaves `tags` at its default, the empty text
UploadOutfit(user_id, file, io) == UploadOutfitTagged(user_id, file, <<>>, io)

\* ---------------------------------------------------------------------
\* Get detail (routers/get.py)
\* ---------------------------------------------------------------------
\* json.loads of the stored text: one layer of json.dumps is undone
json_loads_text(v) ==
  IF v.dumps = 1 THEN PyDict(v.obj)
  ELSE [py |-> "str", dumps |-> v.dumps - 1, obj |-> v.obj]

\* a column value that is text but not JSON
NotJson == [py |-> "str", dumps |-> 0, obj |-> EmptyObj]

\* variant: the stored result is decoded whatever the status is
format_outfit_detail_any_status(id, row) ==
  LET analysis_status == IF row.analysis_status = "" THEN "pending" ELSE row.analysis_status
  IN [op |-> "get", code |-> 200, id |-> id,
      analysis_status |-> analysis_status,
      analysis |-> IF row.analysis_results # NULL
                   THEN IF row.analysis_results = NotJson THEN PyNone
                        ELSE json_loads_text(row.analysis_results)
                   ELSE PyNone,
      llm |-> <<>>, body |-> ""]

\* get.py:48-74; a status of "" stands for SQL NULL, and json.loads
\* raising leaves analysis at None
format_outfit_detail(id, row) ==
  LET analysis_status == IF row.analysis_status = "" THEN "pending" ELSE row.analysis_status
  IN [op |-> "get", code |-> 200, id |-> id,
      analysis_status |-> analysis_status,
      analysis |-> IF row.analysis_results # NULL /\ analysis_status = "completed"
                   THEN IF row.analysis_results = NotJson THEN PyNone
                        ELSE json_loads_text(row.analysis_results)
                   ELSE PyNone,
      llm |-> <<>>, body |-> ""]

\* ---------------------------------------------------------------------
\* The Driver: analyze_outfit_image (utils/llm.py:78-177)
\* ---------------------------------------------------------------------
ErrObj(msg) == ("error" :> StrVal(msg))
DownloadFailed == <<"d","l">>
FileNotFound == <<"n","f">>

\* the scheduler runs analyze_outfit_image(image_path, outfit_id) for any
\* record id it is given: the function takes its arguments as they come
TaskIds == 1..Len(tasks)

InvokedFor(outfit_id) == \E t \in TaskIds : tasks[t].outfit_id = outfit_id

RowOf(outfit_id) == IF outfit_id \in DOMAIN lite THEN lite[outfit_id] ELSE pg[outfit_id]

Invoke(outfit_id, retry) ==
  /\ Len(tasks) < (IF retry THEN MaxInvocations ELSE MaxTasks)
  /\ outfit_id \in DOMAIN lite \cup DOMAIN pg
  /\ retry \/ ~InvokedFor(outfit_id)
  /\ tasks' = Append(tasks, NewTask(outfit_id, RowOf(outfit_id).image_path, "invoke"))
  /\ UNCHANGED <<pg, lite, usedIds, lastWrite, resp, favs, assets, probe, inflight>>

\* llm.py:85-117: image resolution.  `out` is what the fetch or the file
\* read does: "ok", the exception the inner try names, or any other one.
ResolveOutcomes(image_path) ==
  IF IsUrl(image_path) THEN {"ok", "URLError", "Exception"}
  ELSE {"ok", "FileNotFoundError", "Exception"}

\* variant: a missing local file is logged and the function returns
\* without a status write
ResolvedSilent(task, out) ==
  CASE out = "ok" ->
         [task EXCEPT !.pc = "generate", !.fetches = @ + 1]
    [] out = "URLError" ->
         [task EXCEPT !.pc = "write", !.fetches = @ + 1, !.kind = "resolution",
                      !.line = 99, !.status = "failed",
                      !.results = json_dumps(PyDict(ErrObj(DownloadFailed)))]
    [] out = "FileNotFoundError" ->
         [task EXCEPT !.pc = "done", !.fetches = @ + 1, !.kind = "resolution"]
    [] OTHER ->
         [task EXCEPT !.pc = "write", !.fetches = @ + 1, !.kind = "resolution",
                      !.line = HandlerLine(out), !.status = "failed",
                      !.results = PyNone]

Resolved(task, out) ==
  CASE out = "ok" ->
         [task EXCEPT !.pc = "generate", !.fetches = @ + 1]
    [] out = "URLError" ->
         [task EXCEPT !.pc = "write", !.fetches = @ + 1, !.kind = "resolution",
                      !.line = 99, !.status = "failed",
                      !.results = json_dumps(PyDict(ErrObj(DownloadFailed)))]
    [] out = "FileNotFoundError" ->
         [task EXCEPT !.pc = "write", !.fetches = @ + 1, !.kind = "resolution",
                      !.line = 108, !.status = "failed",
                      !.results = json_dumps(PyDict(ErrObj(FileNotFound)))]
    [] OTHER ->
         [task EXCEPT !.pc = "write", !.fetches = @ + 1, !.kind = "resolution",
                      !.line = HandlerLine(out), !.status = "failed",
                      !.results = PyNone]

Resolve(t, out) ==
  /\ tasks[t].pc = "queued"
  /\ out \in ResolveOutcomes(tasks[t].image_path)
  /\ tasks' = [tasks EXCEPT ![t] = Resolved(@, out)]
  /\ UNCHANGED <<pg, lite, usedIds, lastWrite, resp, favs, assets, probe, inflight>>

\* llm.py:119-163: the provider call and the Normalizer.  The call either
\* raises or returns a response text; `o` is what the code makes of it.
ProviderOutcomes ==
  {Raised("Exception", "provider")} \cup {Normalize(text) : text \in Texts}

\* variant: a failed provider call is attempted once more
GeneratedRetry(task, o) ==
  IF o.kind = "provider" /\ task.calls < 2
  THEN [task EXCEPT !.calls = @ + 1]
  ELSE [task EXCEPT !.pc = "write", !.calls = @ + 1, !.kind = o.kind, !.parsed = o.parsed,
                    !.line = o.line, !.status = o.status, !.results = o.results]

Generated(task, o) ==
  [task EXCEPT !.pc = "write", !.calls = @ + 1, !.kind = o.kind, !.parsed = o.parsed,
               !.line = o.line, !.status = o.status, !.results = o.results]

Generate(t, o) ==
  /\ tasks[t].pc = "generate"
  /\ tasks' = [tasks EXCEPT ![t] = Generated(@, o)]
  /\ UNCHANGED <<pg, lite, usedIds, lastWrite, resp, favs, assets, probe, inflight>>

\* ---------------------------------------------------------------------
\* update_analysis_status (database/db.py:63-86)
\* ---------------------------------------------------------------------
\* db.py:71
AnalysisJson(results) == IF Truthy(results) THEN json_dumps(results) ELSE NULL

\* variant: the UPDATE keeps the old analysis_results when the new one is NULL
UpdatedRowKeepsResult(row, status, analysis_json) ==
  [row EXCEPT !.analysis_status = status,
              !.analysis_results = IF analysis_json = NULL THEN @ ELSE analysis_json]

\* db.py:73-80: one UPDATE statement sets both columns of the row
UpdatedRow(row, status, analysis_json) ==
  [row EXCEPT !.analysis_status = status, !.analysis_results = analysis_json]

\* variant: the body of update_analysis_status has no except clause
UpdateCatchesNothing == FALSE

\* db.py:83-86: `except Exception` around the whole body
UpdateCatches == TRUE

\* variant: a statement after the call at line 163 raises inside the try,
\* so the handler at line 175 runs after the completed write
AfterUpdateThenHandler(task) ==
  IF task.line = 163
  THEN [task EXCEPT !.line = 177, !.status = "failed", !.results = PyNone]
  ELSE [task EXCEPT !.pc = "done", !.line = 0, !.status = "", !.results = PyNone]

\* where control goes after the call at `line` returns
AfterUpdate(task) == [task EXCEPT !.pc = "done", !.line = 0, !.status = "", !.results = PyNone]

\* where an exception leaving the call at `line` goes: the calls at 99,
\* 108 and 163 are inside the outer try, the others are in its handlers
AfterUpdateRaise(task) ==
  IF task.line \in {99, 108, 163}
  THEN [task EXCEPT !.line = 177, !.status = "failed", !.results = PyNone]
  ELSE [task EXCEPT !.pc = "raised", !.line = 0, !.status = "", !.results = PyNone]

\* whether either table holds a record of this id
RecordExists(outfit_id) == outfit_id \in DOMAIN pg \cup DOMAIN lite

\* the record of one call: its status argument, the text it computed for
\* analysis_results, what the statement did ("applied" to the row,
\* "norow" matched, or "error" raised inside the body), and whether the
\* record existed when the statement ran
UpdateCall(task, effect) ==
  [task EXCEPT !.updates = Append(@, [status |-> task.status,
                                      stored |-> AnalysisJson(task.results),
                                      effect |-> effect,
                                      existed |-> RecordExists(task.outfit_id)])]

\* variant: the statement is an upsert, INSERT OR REPLACE
ExecuteUpsert(table, outfit_id, status, analysis_json) ==
  IF outfit_id \in DOMAIN table
  THEN [table EXCEPT ![outfit_id] = UpdatedRow(@, status, analysis_json)]
  ELSE (outfit_id :> UpdatedRow(LegacyRow, status, analysis_json)) @@ table

\* variant: the statement has no WHERE clause
ExecuteUpdateAll(table, outfit_id, status, analysis_json) ==
  [i \in DOMAIN table |-> UpdatedRow(table[i], status, analysis_json)]

\* db.py:73-80: UPDATE outfits SET ... WHERE id = ?; a statement that
\* matches no row changes nothing and raises nothing
ExecuteUpdate(table, outfit_id, status, analysis_json) ==
  IF outfit_id \in DOMAIN table
  THEN [table EXCEPT ![outfit_id] = UpdatedRow(@, status, analysis_json)]
  ELSE table

Write(t, dbOk) ==
  LET task == tasks[t]
      id == task.outfit_id
      hit == dbOk /\ id \in DOMAIN lite
      effect == IF ~dbOk THEN "error" ELSE IF hit THEN "applied" ELSE "norow"
  IN /\ task.pc = "write"
     /\ lite' = IF dbOk
                THEN ExecuteUpdate(lite, id, task.status, AnalysisJson(task.results))
                ELSE lite
     /\ lastWrite' = IF hit THEN [lastWrite EXCEPT ![id] = t] ELSE lastWrite
     /\ tasks' = [tasks EXCEPT ![t] =
                    IF dbOk \/ UpdateCatches
                    THEN AfterUpdate(UpdateCall(task, effect))
                    ELSE AfterUpdateRaise(UpdateCall(task, effect))]
     /\ UNCHANGED <<pg, usedIds, resp, favs, assets, probe, inflight>>

\* ---------------------------------------------------------------------
\* Delete (routers/delete.py)
\* ---------------------------------------------------------------------
\* delete.py:92-95: the body names no record
DeleteResp(code) ==
  [op |-> "delete", code |-> code, id |-> 0, analysis_status |-> "", analysis |-> PyNone,
   llm |-> <<>>, body |-> ""]

\* favorites.outfit_id REFERENCES outfits(id), with no ON DELETE action:
\* the DELETE of a referenced row raises
Referenced(outfit_id) == \E i \in 1..Len(favs) : favs[i].outfit_id = outfit_id

\* variant: the image is destroyed as soon as the row is found, before
\* the owner is compared
DeleteOutfitAssetFirst(outfit_id, user_id, io) ==
  IF user_id = " "
  THEN /\ resp' = DeleteResp(400)
       /\ UNCHANGED <<pg, lite, tasks, usedIds, lastWrite, favs, assets, probe, inflight>>
  ELSE IF outfit_id \notin DOMAIN pg
  THEN /\ resp' = DeleteResp(404)
       /\ UNCHANGED <<pg, lite, tasks, usedIds, lastWrite, favs, assets, probe, inflight>>
  ELSE IF pg[outfit_id].user_id # user_id
  THEN /\ resp' = DeleteResp(403)
       /\ assets' = assets \ {pg[outfit_id].image_filename}
       /\ UNCHANGED <<pg, lite, tasks, usedIds, lastWrite, favs, probe, inflight>>
  ELSE IF io = "db_error" \/ Referenced(outfit_id)
  THEN /\ resp' = DeleteResp(500)
       /\ UNCHANGED <<pg, lite, tasks, usedIds, lastWrite, favs, assets, probe, inflight>>
  ELSE /\ pg' = [i \in DOMAIN pg \ {outfit_id} |-> pg[i]]
       /\ assets' = IF io = "cloud_fail" THEN assets
                    ELSE assets \ {pg[outfit_id].image_filename}
       /\ resp' = DeleteResp(200)
       /\ UNCHANGED <<lite, tasks, usedIds, lastWrite, favs, probe, inflight>>

\* `io`: "ok", the DELETE statement raising, or the cloud store refusing
\* to destroy the image
DeleteOutfit(outfit_id, user_id, io) ==
  IF user_id = " "
  THEN /\ resp' = DeleteResp(400)
       /\ UNCHANGED <<pg, lite, tasks, usedIds, lastWrite, favs, assets, probe, inflight>>
  ELSE IF outfit_id \notin DOMAIN pg
  THEN /\ resp' = DeleteResp(404)
       /\ UNCHANGED <<pg, lite, tasks, usedIds, lastWrite, favs, assets, probe, inflight>>
  ELSE IF pg[outfit_id].user_id # user_id
  THEN /\ resp' = DeleteResp(403)
       /\ UNCHANGED <<pg, lite, tasks, usedIds, lastWrite, favs, assets, probe, inflight>>
  ELSE IF io = "db_error" \/ Referenced(outfit_id)
  THEN /\ resp' = DeleteResp(500)
       /\ UNCHANGED <<pg, lite, tasks, usedIds, lastWrite, favs, assets, probe, inflight>>
  ELSE /\ pg' = [i \in DOMAIN pg \ {outfit_id} |-> pg[i]]
       /\ assets' = IF io = "cloud_fail" THEN assets
                    ELSE assets \ {pg[outfit_id].image_filename}
       /\ resp' = DeleteResp(200)
       /\ UNCHANGED <<lite, tasks, usedIds, lastWrite, favs, probe, inflight>>

\* ---------------------------------------------------------------------
\* Tags (routers/tags.py, database/db.py:114-143)
\* ---------------------------------------------------------------------
MAX_TAG_LENGTH == 30
MAX_TAGS_PER_OUTFIT == 15

Digits == {"0","1","2","3","4","5","6","7","8","9"}

\* str.isalnum() of one character
IsAlnum(c) ==
  \/ \E i \in 1..Len(LowerChars) : LowerChars[i] = c \/ UpperChars[i] = c
  \/ c \in Digits

\* tags.py:20: tag.strip().lower()
NormalTag(tag) == Lower(Strip(tag))

\* validate_tag returns the normalised tag unless one of its checks raises
TagIsValid(tag) ==
  /\ IsStr(tag)
  /\ NormalTag(tag) # <<>>
  /\ Len(NormalTag(tag)) <= MAX_TAG_LENGTH
  /\ \A i \in 1..Len(NormalTag(tag)) :
        IsAlnum(NormalTag(tag)[i]) \/ NormalTag(tag)[i] \in {" ", "-"}

\* str.split(",")
RECURSIVE SplitComma(_)
SplitComma(s) ==
  LET i == Find(s, ",")
  IN IF i = -1 THEN <<s>>
     ELSE <<SubSeq(s, 1, i)>> \o SplitComma(SubSeq(s, i + 2, Len(s)))

\* ",".join(tags)
RECURSIVE JoinComma(_)
JoinComma(tags) ==
  IF tags = <<>> THEN <<>>
  ELSE IF Len(tags) = 1 THEN tags[1]
  ELSE tags[1] \o <<",">> \o JoinComma(Tail(tags))

\* db.py:123: [tag.strip() for tag in result[0].split(",") if tag.strip()]
TagList(text) ==
  LET parts == SplitComma(text)
  IN SelectSeq([i \in 1..Len(parts) |-> Strip(parts[i])], LAMBDA t : t # <<>>)

\* db.py:114-126
get_outfit_tags(outfit_id) ==
  IF outfit_id \notin DOMAIN lite \/ lite[outfit_id].tags = <<>> THEN <<>>
  ELSE TagList(lite[outfit_id].tags)

\* variant: the statement also resets the analysis columns
SavedTagsRowResets(row, tags) ==
  [row EXCEPT !.tags = JoinComma(tags),
              !.analysis_status = "pending", !.analysis_results = NULL]

\* db.py:135-138: UPDATE outfits SET tags = ? WHERE id = ?
SavedTagsRow(row, tags) == [row EXCEPT !.tags = JoinComma(tags)]

\* variant: the check only looks for the row
OwnsLiteIfExists(outfit_id, user_id) == outfit_id \in DOMAIN lite

\* tags.py:36-48
OwnsLite(outfit_id, user_id) ==
  outfit_id \in DOMAIN lite /\ lite[outfit_id].user_id = user_id

\* a response whose body names no record: the operation and the status code
OpResp(op, code) ==
  [op |-> op, code |-> code, id |-> 0, analysis_status |-> "", analysis |-> PyNone,
   llm |-> <<>>, body |-> ""]

Contains(seq, e) == \E i \in 1..Len(seq) : seq[i] = e

\* tags.py:67-106; `dbOk` is whether the UPDATE of save_outfit_tags runs
AddTag(outfit_id, user_id, tag, dbOk) ==
  LET existing == get_outfit_tags(outfit_id)
      ok == /\ user_id # " " /\ tag # <<>> /\ TagIsValid(tag)
            /\ OwnsLite(outfit_id, user_id)
            /\ ~Contains(existing, NormalTag(tag))
            /\ Len(existing) < MAX_TAGS_PER_OUTFIT
      code == IF user_id = " " \/ tag = <<>> \/ ~TagIsValid(tag) THEN 400
              ELSE IF ~OwnsLite(outfit_id, user_id) THEN 403
              ELSE IF Contains(existing, NormalTag(tag)) THEN 409
              ELSE IF Len(existing) >= MAX_TAGS_PER_OUTFIT THEN 400
              ELSE IF ~dbOk THEN 500
              ELSE 200
  IN /\ lite' = IF ok /\ dbOk
                THEN [lite EXCEPT ![outfit_id] =
                        SavedTagsRow(@, Append(existing, NormalTag(tag)))]
                ELSE lite
     /\ resp' = OpResp("add_tag", code)
     /\ UNCHANGED <<pg, tasks, usedIds, lastWrite, favs, assets, probe, inflight>>

\* tags.py:109-140
RemoveTag(outfit_id, user_id, tag, dbOk) ==
  LET existing == get_outfit_tags(outfit_id)
      tag_normalized == Lower(Strip(tag))
      updated == SelectSeq(existing, LAMBDA t : t # tag_normalized)
      ok == /\ user_id # " " /\ Strip(tag) # <<>>
            /\ OwnsLite(outfit_id, user_id)
            /\ Len(updated) # Len(existing)
      code == IF user_id = " " \/ Strip(tag) = <<>> THEN 400
              ELSE IF ~OwnsLite(outfit_id, user_id) THEN 403
              ELSE IF Len(updated) = Len(existing) THEN 404
              ELSE IF ~dbOk THEN 500
              ELSE 200
  IN /\ lite' = IF ok /\ dbOk
                THEN [lite EXCEPT ![outfit_id] = SavedTagsRow(@, updated)]
                ELSE lite
     /\ resp' = OpResp("remove_tag", code)
     /\ UNCHANGED <<pg, tasks, usedIds, lastWrite, favs, assets, probe, inflight>>

\* tags.py:51-64
GetTags(outfit_id, user_id) ==
  /\ resp' = OpResp("get_tags",
                    IF user_id = " " THEN 400
                    ELSE IF ~OwnsLite(outfit_id, user_id) THEN 403 ELSE 200)
  /\ UNCHANGED <<pg, lite, tasks, usedIds, lastWrite, favs, assets, probe, inflight>>

\* ---------------------------------------------------------------------
\* The tag handlers step by step: the SELECT of get_outfit_tags and the
\* UPDATE of save_outfit_tags are two statements on two connections, and
\* nothing in tags.py or db.py holds a lock or a transaction across them
\* ---------------------------------------------------------------------
TagRequest(op, outfit_id, tag, updated, code) ==
  [op |-> op, outfit_id |-> outfit_id, tag |-> tag, updated |-> updated, code |-> code]

\* tags.py:71-101: add_tag up to `updated = existing + [tag]`; a request
\* that is refused is answered here
AddTagRead(w, outfit_id, user_id, tag) ==
  LET existing == get_outfit_tags(outfit_id)
      code == IF user_id = " " \/ tag = <<>> \/ ~TagIsValid(tag) THEN 400
              ELSE IF ~OwnsLite(outfit_id, user_id) THEN 403
              ELSE IF Contains(existing, NormalTag(tag)) THEN 409
              ELSE IF Len(existing) >= MAX_TAGS_PER_OUTFIT THEN 400
              ELSE 0
  IN /\ inflight[w] = Idle
     /\ inflight' = [inflight EXCEPT ![w] =
                       IF code = 0
                       THEN TagRequest("add_tag", outfit_id, NormalTag(tag),
                                       Append(existing, NormalTag(tag)), 0)
                       ELSE TagRequest("add_tag", outfit_id, <<>>, <<>>, code)]
     /\ resp' = IF code = 0 THEN resp ELSE OpResp("add_tag", code)
     /\ UNCHANGED <<pg, lite, tasks, usedIds, lastWrite, favs, assets, probe>>

\* tags.py:113-133: remove_tag up to the 404 test
RemoveTagRead(w, outfit_id, user_id, tag) ==
  LET existing == get_outfit_tags(outfit_id)
      tag_normalized == Lower(Strip(tag))
      updated == SelectSeq(existing, LAMBDA t : t # tag_normalized)
      code == IF user_id = " " \/ Strip(tag) = <<>> THEN 400
              ELSE IF ~OwnsLite(outfit_id, user_id) THEN 403
              ELSE IF Len(updated) = Len(existing) THEN 404
              ELSE 0
  IN /\ inflight[w] = Idle
     /\ inflight' = [inflight EXCEPT ![w] =
                       IF code = 0
                       THEN TagRequest("remove_tag", outfit_id, tag_normalized, updated, 0)
                       ELSE TagRequest("remove_tag", outfit_id, <<>>, <<>>, code)]
     /\ resp' = IF code = 0 THEN resp ELSE OpResp("remove_tag", code)
     /\ UNCHANGED <<pg, lite, tasks, usedIds, lastWrite, favs, assets, probe>>

\* tags.py:102-106, 136-140 with db.py:130-143: the UPDATE writes the whole
\* column from the list the handler computed, then the handler answers
TagSave(w, dbOk) ==
  LET r == inflight[w]
      code == IF dbOk THEN 200 ELSE 500
  IN /\ r.op \in {"add_tag", "remove_tag"}
     /\ r.code = 0
     /\ lite' = IF dbOk /\ r.outfit_id \in DOMAIN lite
                THEN [lite EXCEPT ![r.outfit_id] = SavedTagsRow(@, r.updated)]
                ELSE lite
     /\ inflight' = [inflight EXCEPT ![w].code = code]
     /\ resp' = OpResp(r.op, code)
     /\ UNCHANGED <<pg, tasks, usedIds, lastWrite, favs, assets, probe>>

\* ---------------------------------------------------------------------
\* Favorites (routers/favorites.py)
\* ---------------------------------------------------------------------
\* favorites.py:14-26
OwnsPg(outfit_id, user_id) ==
  outfit_id \in DOMAIN pg /\ pg[outfit_id].user_id = user_id

FavRow(user_id, outfit_id) == [user_id |-> user_id, outfit_id |-> outfit_id]

\* a response whose body is told apart by its message
BodyResp(op, code, body) == [OpResp(op, code) EXCEPT !.body = body]

\* variant: the table has no UNIQUE(user_id, outfit_id)
AddFavoriteNoConstraint(outfit_id, user_id, dbOk) ==
  LET owns == user_id # " " /\ OwnsPg(outfit_id, user_id)
      code == IF user_id = " " THEN 400
              ELSE IF ~OwnsPg(outfit_id, user_id) THEN 403
              ELSE IF ~dbOk THEN 500
              ELSE 200
  IN /\ favs' = IF owns /\ dbOk
                THEN Append(favs, FavRow(user_id, outfit_id))
                ELSE favs
     /\ resp' = BodyResp("add_favorite", code, IF code = 200 THEN "added" ELSE "")
     /\ UNCHANGED <<pg, lite, tasks, usedIds, lastWrite, assets, probe, inflight>>

\* favorites.py:130-151; `dbOk` is whether the INSERT reaches the table.
\* UNIQUE(user_id, outfit_id) rejects a second row of the same pair, and
\* add_favorite turns that error into False, which the endpoint answers
\* with "Outfit is already favorited".
AddFavorite(outfit_id, user_id, dbOk) ==
  LET owns == user_id # " " /\ OwnsPg(outfit_id, user_id)
      duplicate == Contains(favs, FavRow(user_id, outfit_id))
      code == IF user_id = " " THEN 400
              ELSE IF ~OwnsPg(outfit_id, user_id) THEN 403
              ELSE IF ~dbOk THEN 500
              ELSE 200
  IN /\ favs' = IF owns /\ dbOk /\ ~duplicate
                THEN Append(favs, FavRow(user_id, outfit_id))
                ELSE favs
     /\ resp' = BodyResp("add_favorite", code,
                         IF code # 200 THEN "" ELSE IF duplicate THEN "already" ELSE "added")
     /\ UNCHANGED <<pg, lite, tasks, usedIds, lastWrite, assets, probe, inflight>>

\* favorites.py:154-169: no ownership check; DELETE of the pair's rows,
\* the message telling whether a row was there
RemoveFavorite(outfit_id, user_id, dbOk) ==
  LET code == IF user_id = " " THEN 400 ELSE IF ~dbOk THEN 500 ELSE 200
  IN /\ favs' = IF code = 200
                THEN SelectSeq(favs, LAMBDA f : f # FavRow(user_id, outfit_id))
                ELSE favs
     /\ resp' = BodyResp("remove_favorite", code,
                         IF code # 200 THEN ""
                         ELSE IF Contains(favs, FavRow(user_id, outfit_id)) THEN "removed"
                         ELSE "not_in")
     /\ UNCHANGED <<pg, lite, tasks, usedIds, lastWrite, assets, probe, inflight>>

\* favorites.py:172-183: get_user_favorites returns [] on any error
GetFavorites(user_id) ==
  /\ resp' = OpResp("favorites", IF user_id = " " THEN 400 ELSE 200)
  /\ UNCHANGED <<pg, lite, tasks, usedIds, lastWrite, favs, assets, probe, inflight>>

\* ---------------------------------------------------------------------
\* Reading operations
\* ---------------------------------------------------------------------
\* get.py:77-97; get_outfit_from_db returns None when the query raises
GetOutfitDetail(outfit_id, user_id, dbOk) ==
  /\ resp' = IF user_id = " " THEN OpResp("get", 400)
             ELSE IF ~dbOk \/ outfit_id \notin DOMAIN pg THEN OpResp("get", 404)
             ELSE IF pg[outfit_id].user_id # user_id THEN OpResp("get", 403)
             ELSE format_outfit_detail(outfit_id, pg[outfit_id])
  /\ UNCHANGED <<pg, lite, tasks, usedIds, lastWrite, favs, assets, probe, inflight>>

\* list.py:47-61
GetAllOutfits(user_id, dbOk) ==
  /\ resp' = OpResp("list", IF user_id = " " THEN 400 ELSE IF ~dbOk THEN 500 ELSE 200)
  /\ UNCHANGED <<pg, lite, tasks, usedIds, lastWrite, favs, assets, probe, inflight>>

\* search.py:26-62; `q` is the query text, an unhandled query error is a 500
SearchOutfits(user_id, q, dbOk) ==
  /\ resp' = OpResp("search",
                    IF user_id = " " \/ Strip(q) = <<>> THEN 400
                    ELSE IF ~dbOk THEN 500 ELSE 200)
  /\ UNCHANGED <<pg, lite, tasks, usedIds, lastWrite, favs, assets, probe, inflight>>

\* what one call of model.generate_content gives: a text, a response
\* whose text is empty, or an exception
ProviderReplies == {"text", "empty", "raise"}

\* a response of a handler that talks to the provider
LlmResp(op, code, id, llm, body) ==
  [op |-> op, code |-> code, id |-> id, analysis_status |-> "", analysis |-> PyNone,
   llm |-> llm, body |-> body]

\* matching.py:34-92: generate_matching_suggestions reaches
\* model.generate_content unless building the prompt raises, which
\* outfit_data.get does when the decoded value is a str
MatchingReachesProvider(row) ==
  row.analysis_results # NULL /\ json_loads_text(row.analysis_results).py = "dict"

\* matching.py:158: `if not analysis_results`
MatchingRejects(row) == row.analysis_results = NULL

\* matching.py:128-175; `reply` is what the provider call gives when it
\* is made, `usable` whether its text is a JSON list
GetMatchingSuggestions(outfit_id, user_id, reply, usable) ==
  LET found == outfit_id \in DOMAIN lite
      called == /\ user_id # " " /\ found /\ lite[outfit_id].user_id = user_id
                /\ ~MatchingRejects(lite[outfit_id])
                /\ MatchingReachesProvider(lite[outfit_id])
      code == IF user_id = " " THEN 400
              ELSE IF ~found THEN 404
              ELSE IF lite[outfit_id].user_id # user_id THEN 403
              ELSE IF MatchingRejects(lite[outfit_id]) THEN 400
              ELSE IF ~called \/ reply # "text" \/ ~usable THEN 500
              ELSE 200
  IN /\ resp' = LlmResp("matching", code, outfit_id,
                        IF called THEN <<reply>> ELSE <<>>,
                        IF code = 200 THEN "suggestions" ELSE "")
     /\ UNCHANGED <<pg, lite, tasks, usedIds, lastWrite, favs, assets, probe, inflight>>

\* recommendations.py:208-244: `not body.user_id` rejects the empty text
\* only; get_user_context returns {} on any error, so the provider is
\* called for every other request; `usable` is whether the text could be
\* turned into suggestions
WeeklyRecommendations(user_id, reply, usable) ==
  /\ resp' = IF user_id = "" THEN LlmResp("weekly", 400, 0, <<>>, "")
             ELSE IF reply = "text" /\ usable
                  THEN LlmResp("weekly", 200, 0, <<reply>>, "suggestions")
                  ELSE LlmResp("weekly", 500, 0, <<reply>>, "")
  /\ UNCHANGED <<pg, lite, tasks, usedIds, lastWrite, favs, assets, probe, inflight>>

\* variant: the loop has no break, both attempts are always made
SeasonalAttemptsNoBreak(replies) == <<replies[1], replies[2]>>

\* recommendations.py:286-307: the retry loop, `for attempt in
\* range(1, 3)`, given what the provider gives at attempt 1 and at
\* attempt 2; the result is what the calls that were made gave, in
\* order.  The loop is left at the first non-empty text.
SeasonalAttempts(replies) ==
  IF replies[1] = "text" THEN <<replies[1]>>
  ELSE <<replies[1], replies[2]>>

\* recommendations.py:247-356; `replies` is what the provider gives at
\* the first and at the second attempt, `json` whether the text holds a
\* JSON object, `ok` whether the code before the loop runs through
\* (current_season, the prompt)
SeasonalRecommendations(user_id, replies, json, ok) ==
  LET llm == SeasonalAttempts(replies)
      raw_text == llm # <<>> /\ llm[Len(llm)] = "text"
  IN /\ resp' = IF ~ok THEN LlmResp("seasonal", 500, 0, <<>>, "")
                ELSE IF ~raw_text THEN LlmResp("seasonal", 200, 0, llm, "fallback")
                ELSE IF ~json THEN LlmResp("seasonal", 200, 0, llm, "fallback")
                ELSE LlmResp("seasonal", 200, 0, llm, "advice")
     /\ UNCHANGED <<pg, lite, tasks, usedIds, lastWrite, favs, assets, probe, inflight>>

\* ---------------------------------------------------------------------
\* The Normalizer applied to one response text (llm.py:145-163)
\* ---------------------------------------------------------------------
Quiet ==
  /\ pg = [i \in {} |-> LegacyRow]
  /\ lite = [i \in {} |-> LegacyRow]
  /\ tasks = <<>>
  /\ usedIds = {}
  /\ lastWrite = [i \in OutfitIds |-> 0]
  /\ resp = NoResp
  /\ favs = <<>>
  /\ assets = {}
  /\ inflight = NoRequests

TextProbe(text) ==
  [fn |-> "normalize", text |-> text, applied |-> FALSE,
   attempted |-> FALSE, json_str |-> <<>>, out |-> Raised("none", "none")]

\* `attempted` is whether control reached json.loads at line 157, and
\* `json_str` is its argument
NormalizeText ==
  /\ probe.fn = "normalize" /\ ~probe.applied
  /\ LET raw_text == Strip(probe.text)
         reached == raw_text # <<>> /\ ~ExtractionFails(raw_text)
     IN probe' = [probe EXCEPT !.applied = TRUE,
                               !.attempted = reached,
                               !.json_str = IF reached THEN JsonStr(raw_text) ELSE <<>>,
                               !.out = Normalize(probe.text)]
  /\ UNCHANGED <<pg, lite, tasks, usedIds, lastWrite, resp, favs, assets, inflight>>

\* ---------------------------------------------------------------------
\* Colour canonicalization applied to one list (llm.py:58-72)
\* ---------------------------------------------------------------------
HexUpper == <<"#","A","B","C","D","E","F">>
SevenNotHex == <<"#","z","z","z","z","z","z">>
ShortHex == <<"#","f","f","f">>

\* list elements a response can carry: names, hex codes in either case,
\* a seven-character text that starts with "#", a short code, an unknown
\* word, and a number
ColorSamples == {Red, SpacedBlue, Hex112233, HexUpper, SevenNotHex, ShortHex, NotAColor, Seven}

ColorLists ==
  UNION {[1..n -> ColorSamples] : n \in 0..MaxColors}

ColorProbe(colors) ==
  [fn |-> "colors", colors |-> colors, n |-> 0, raised |-> FALSE,
   once |-> <<>>, twice |-> <<>>]

\* convert_color_names_to_hex(colors), an AttributeError included
CanonicalizeOnce ==
  /\ probe.fn = "colors" /\ probe.n = 0
  /\ probe' = IF ConvertRaises(probe.colors)
              THEN [probe EXCEPT !.n = 1, !.raised = TRUE]
              ELSE [probe EXCEPT !.n = 1, !.once = convert_color_names_to_hex(probe.colors)]
  /\ UNCHANGED <<pg, lite, tasks, usedIds, lastWrite, resp, favs, assets, inflight>>

\* the function applied to its own result
CanonicalizeTwice ==
  /\ probe.fn = "colors" /\ probe.n = 1 /\ ~probe.raised
  /\ probe' = [probe EXCEPT !.n = 2, !.twice = convert_color_names_to_hex(probe.once)]
  /\ UNCHANGED <<pg, lite, tasks, usedIds, lastWrite, resp, favs, assets, inflight>>

\* ---------------------------------------------------------------------
\* Specifications
\* ---------------------------------------------------------------------
Requests ==
  \E user_id \in UserInputs, file \in Files, io \in {"ok", "cloud_none", "db_error"} :
    UploadOutfit(user_id, file, io)

DriverSteps ==
  \/ \E t \in TaskIds, out \in {"ok", "URLError", "FileNotFoundError", "Exception"} :
       Resolve(t, out)
  \/ \E t \in TaskIds, o \in ProviderOutcomes : Generate(t, o)
  \/ \E t \in TaskIds, dbOk \in BOOLEAN : Write(t, dbOk)

\* every record is analysed at most once, as upload schedules it
Next ==
  \/ Requests
  \/ \E outfit_id \in OutfitIds : Invoke(outfit_id, FALSE)
  \/ DriverSteps

Spec == Init /\ [][Next]_vars

\* the Driver may be invoked again for a record it has already analysed
NextRetry ==
  \/ \E outfit_id \in OutfitIds : Invoke(outfit_id, TRUE)
  \/ DriverSteps

SpecRetry == Init /\ [][NextRetry]_vars

\* the Driver is run once for each of several records, side by side
InvokeOnce(outfit_id) == ~InvokedFor(outfit_id) /\ Invoke(outfit_id, TRUE)

NextDrivers ==
  \/ \E outfit_id \in OutfitIds : InvokeOnce(outfit_id)
  \/ DriverSteps

SpecDrivers == Init /\ [][NextDrivers]_vars

\* the Driver is run again and again for one and the same record
InvokeAgain(outfit_id) ==
  /\ \A t \in TaskIds : tasks[t].outfit_id = outfit_id
  /\ Invoke(outfit_id, TRUE)

NextAgain ==
  \/ \E outfit_id \in OutfitIds : InvokeAgain(outfit_id)
  \/ DriverSteps

SpecAgain == Init /\ [][NextAgain]_vars

\* the Driver beside matching requests, with everything the provider can
\* give to either
MatchingRequests ==
  \E outfit_id \in OutfitIds, user_id \in UserInputs, reply \in ProviderReplies,
     usable \in BOOLEAN :
    GetMatchingSuggestions(outfit_id, user_id, reply, usable)

NextMatching ==
  \/ \E outfit_id \in OutfitIds : Invoke(outfit_id, FALSE)
  \/ DriverSteps
  \/ MatchingRequests

SpecMatching == Init /\ [][NextMatching]_vars

\* seasonal requests beside the Driver whose rows get_user_context reads
SeasonalRequests ==
  \E user_id \in UserInputs, replies \in [1..2 -> ProviderReplies],
     json \in BOOLEAN, ok \in BOOLEAN :
    SeasonalRecommendations(user_id, replies, json, ok)

NextSeasonal ==
  \/ \E outfit_id \in OutfitIds : Invoke(outfit_id, FALSE)
  \/ DriverSteps
  \/ SeasonalRequests

SpecSeasonal == Init /\ [][NextSeasonal]_vars

Deletes ==
  \E outfit_id \in OutfitIds, user_id \in UserInputs, io \in {"ok", "db_error", "cloud_fail"} :
    DeleteOutfit(outfit_id, user_id, io)

\* uploads that pass validation and are stored
AcceptedUploads ==
  \E user_id \in Users : UploadOutfit(user_id, [filename |-> "a.jpg", size |-> 2048], "ok")

\* accepted uploads, their Drivers, and deletes
NextDelete ==
  \/ AcceptedUploads
  \/ Deletes
  \/ DriverSteps

SpecDelete == Init /\ [][NextDelete]_vars

\* request inputs.  The body of add_tag is JSON: a tag, the same tag with
\* other case and padding, the empty text, a text with a forbidden
\* character, a number.  The tag of remove_tag is a path segment.
TagInputs == {<<"a">>, <<" ","A">>, <<>>, <<"a",",">>, Seven}
TagTexts == {<<"a">>, <<" ","A">>, <<"b">>, <<" ">>}

TagRequests ==
  \/ \E outfit_id \in OutfitIds, user_id \in UserInputs, tag \in TagInputs, dbOk \in BOOLEAN :
       AddTag(outfit_id, user_id, tag, dbOk)
  \/ \E outfit_id \in OutfitIds, user_id \in UserInputs, tag \in TagTexts, dbOk \in BOOLEAN :
       RemoveTag(outfit_id, user_id, tag, dbOk)
  \/ \E outfit_id \in OutfitIds, user_id \in UserInputs : GetTags(outfit_id, user_id)

FavoriteRequests ==
  \/ \E outfit_id \in OutfitIds, user_id \in UserInputs, dbOk \in BOOLEAN :
       AddFavorite(outfit_id, user_id, dbOk)
  \/ \E outfit_id \in OutfitIds, user_id \in UserInputs, dbOk \in BOOLEAN :
       RemoveFavorite(outfit_id, user_id, dbOk)
  \/ \E user_id \in UserInputs : GetFavorites(user_id)

ReadRequests ==
  \/ \E outfit_id \in OutfitIds, user_id \in UserInputs, dbOk \in BOOLEAN :
       GetOutfitDetail(outfit_id, user_id, dbOk)
  \/ \E user_id \in UserInputs, dbOk \in BOOLEAN : GetAllOutfits(user_id, dbOk)
  \/ \E user_id \in UserInputs, q \in TagTexts, dbOk \in BOOLEAN :
       SearchOutfits(user_id, q, dbOk)
  \/ \E outfit_id \in OutfitIds, user_id \in UserInputs, reply \in {"text", "raise"} :
       GetMatchingSuggestions(outfit_id, user_id, reply, TRUE)
  \/ \E user_id \in UserInputs \cup {""}, reply \in {"text", "raise"} :
       WeeklyRecommendations(user_id, reply, TRUE)
  \/ \E user_id \in UserInputs, reply \in {"text", "raise"}, ok \in BOOLEAN :
       SeasonalRecommendations(user_id, <<reply, reply>>, TRUE, ok)

\* uploads, the Driver, and the tag, favorite and reading operations
NextOps ==
  \/ Requests
  \/ \E outfit_id \in OutfitIds : Invoke(outfit_id, FALSE)
  \/ DriverSteps
  \/ TagRequests
  \/ FavoriteRequests
  \/ ReadRequests

SpecOps == Init /\ [][NextOps]_vars

\* the operations that take an outfit id and a user id, beside uploads
OwnerRequests ==
  \/ \E outfit_id \in OutfitIds, user_id \in Users : GetOutfitDetail(outfit_id, user_id, TRUE)
  \/ \E outfit_id \in OutfitIds, user_id \in Users : DeleteOutfit(outfit_id, user_id, "ok")
  \/ \E outfit_id \in OutfitIds, user_id \in Users : AddFavorite(outfit_id, user_id, TRUE)
  \/ \E outfit_id \in OutfitIds, user_id \in Users : GetTags(outfit_id, user_id)
  \/ \E outfit_id \in OutfitIds, user_id \in Users : AddTag(outfit_id, user_id, <<"a">>, TRUE)
  \/ \E outfit_id \in OutfitIds, user_id \in Users : RemoveTag(outfit_id, user_id, <<"a">>, TRUE)
  \/ \E outfit_id \in OutfitIds, user_id \in Users :
       GetMatchingSuggestions(outfit_id, user_id, "text", TRUE)

NextOwner ==
  \/ AcceptedUploads
  \/ OwnerRequests

SpecOwner == Init /\ [][NextOwner]_vars

\* accepted uploads, favorite requests and deletes
NextFavorites ==
  \/ AcceptedUploads
  \/ FavoriteRequests
  \/ Deletes

SpecFavorites == Init /\ [][NextFavorites]_vars

\* a row that fifteen add-tag requests have filled: tags "b" to "p"
FullTags ==
  JoinComma([i \in 1..MAX_TAGS_PER_OUTFIT |-> <<LowerChars[i + 1]>>])

FullRow == [LegacyRow EXCEPT !.tags = FullTags]

InitTags ==
  /\ pg = [i \in {} |-> LegacyRow]
  /\ \E k \in 0..MaxOutfits : lite \in [1..k -> {LegacyRow, FullRow}]
  /\ tasks = <<>>
  /\ usedIds = DOMAIN lite
  /\ lastWrite = [i \in OutfitIds |-> 0]
  /\ resp = NoResp
  /\ favs = <<>>
  /\ assets = {}
  /\ probe = NoProbe
  /\ inflight = NoRequests

\* the `tags` form field of an upload: left out, or a text typed by hand
UploadTags == {<<>>, <<"R","e","d",","," ","r","e","d",",","R","e","d">>}

TaggedUploads ==
  \E user_id \in Users, tags \in UploadTags :
    UploadOutfitTagged(user_id, [filename |-> "a.jpg", size |-> 2048], tags, "ok")

\* uploads with tags, and tag requests one after the other
NextTags ==
  \/ TaggedUploads
  \/ TagRequests

SpecTags == InitTags /\ [][NextTags]_vars

\* a row that one add-tag request has given the tag "b"
TaggedRow == [LegacyRow EXCEPT !.tags = <<"b">>]

InitTagSteps ==
  /\ pg = [i \in {} |-> LegacyRow]
  /\ \E k \in 1..MaxOutfits : lite \in [1..k -> {LegacyRow, TaggedRow}]
  /\ tasks = <<>>
  /\ usedIds = DOMAIN lite
  /\ lastWrite = [i \in OutfitIds |-> 0]
  /\ resp = NoResp
  /\ favs = <<>>
  /\ assets = {}
  /\ probe = NoProbe
  /\ inflight = NoRequests

RaceTags == {<<"a">>, <<"b">>}

\* two processes, one tag request each, their statements in any order
NextTagSteps ==
  \/ \E w \in TagWorkers, outfit_id \in OutfitIds, user_id \in Users, tag \in RaceTags :
       AddTagRead(w, outfit_id, user_id, tag)
  \/ \E w \in TagWorkers, outfit_id \in OutfitIds, user_id \in Users, tag \in RaceTags :
       RemoveTagRead(w, outfit_id, user_id, tag)
  \/ \E w \in TagWorkers, dbOk \in BOOLEAN : TagSave(w, dbOk)

SpecTagSteps == InitTagSteps /\ [][NextTagSteps]_vars

\* the Normalizer on every response text of the bounded set
InitNormalizer == Quiet /\ \E text \in Texts : probe = TextProbe(text)

SpecNormalizer == InitNormalizer /\ [][NormalizeText]_vars

\* canonicalization on every colors list of the bounded set
InitColors == Quiet /\ \E colors \in ColorLists : probe = ColorProbe(colors)

NextColors == CanonicalizeOnce \/ CanonicalizeTwice

SpecColors == InitColors /\ [][NextColors]_vars

\* get-detail on rows whose analysis columns hold any value the column
\* types admit: every status, NULL included, with no result, an object
\* text, an error text, or text that is not JSON
StoredStatuses == {"", "pending", "completed", "failed"}
StoredResults ==
  {NULL, NotJson, json_dumps(PyDict(MemberKey("D") :> MemberVal("D"))),
   json_dumps(json_dumps(PyDict(ErrObj(DownloadFailed))))}

InitDetail ==
  /\ \E k \in 1..MaxOutfits :
       \E st \in [1..k -> StoredStatuses], rs \in [1..k -> StoredResults] :
         pg = [i \in 1..k |->
                 [InsertedRow("u1", CloudUrl, i, "a.jpg")
                    EXCEPT !.analysis_status = st[i], !.analysis_results = rs[i]]]
  /\ lite = [i \in {} |-> LegacyRow]
  /\ tasks = <<>>
  /\ usedIds = DOMAIN pg
  /\ lastWrite = [i \in OutfitIds |-> 0]
  /\ resp = NoResp
  /\ favs = <<>>
  /\ assets = DOMAIN pg
  /\ probe = NoProbe
  /\ inflight = NoRequests

NextDetail ==
  \E outfit_id \in OutfitIds, user_id \in UserInputs, dbOk \in BOOLEAN :
    GetOutfitDetail(outfit_id, user_id, dbOk)

SpecDetail == InitDetail /\ [][NextDetail]_vars

TypeOK ==
  /\ DOMAIN pg \subseteq OutfitIds
  /\ DOMAIN lite \subseteq OutfitIds
  /\ Len(tasks) <= MaxTasks \/ Len(tasks) <= MaxInvocations
  /\ \A t \in TaskIds : tasks[t].pc \in {"queued", "generate", "write", "done", "raised"}

\* ---------------------------------------------------------------------
\* Properties
\* ---------------------------------------------------------------------
Done(t) == tasks[t].pc = "done"
FailureKinds == {"resolution", "provider", "empty", "extraction", "parse"}

ResultIffCompleted(row) ==
  (row.analysis_results # NULL) <=> (row.analysis_status = "completed")

\* C1: in every reachable state of the record stores, a record's stored
\* result is non-null if and only if its status is completed.
C1_ResultIffCompleted ==
  /\ \A id \in DOMAIN lite : ResultIffCompleted(lite[id])
  /\ \A id \in DOMAIN pg : ResultIffCompleted(pg[id])

\* C2: once the Driver scheduled by upload has returned (its UPDATE having
\* run without error), the get-detail read of the uploaded record
\* (get_outfit_from_db, format_outfit_detail) reports the status the
\* Driver wrote, and the result with completed.
C2_ReadSeesDriverWrite ==
  \A t \in TaskIds :
    (Done(t) /\ tasks[t].origin = "upload" /\ tasks[t].outfit_id \in DOMAIN pg) =>
      LET id == tasks[t].outfit_id
          written == tasks[t].updates[Len(tasks[t].updates)]
          detail == format_outfit_detail(id, pg[id])
      IN written.effect # "error" =>
           /\ detail.analysis_status = written.status
           /\ written.status = "completed" => pg[id].analysis_results = written.stored

\* C3: no exception escapes analyze_outfit_image: whatever fails inside,
\* the status write included, the invocation never ends by raising.
C3_NoExceptionEscapes ==
  \A t \in TaskIds : tasks[t].pc # "raised"

C3_Witness ==
  \E t \in TaskIds :
    /\ Done(t)
    /\ tasks[t].kind = "canonicalize"
    /\ tasks[t].updates[1].effect = "error"

\* C4: a resolution, provider, extraction or parse failure ends the
\* invocation with a status write of failed, never of completed, and the
\* row that write is applied to reads failed.
C4_FailuresWriteFailed ==
  \A t \in TaskIds :
    tasks[t].kind \in FailureKinds =>
      /\ tasks[t].pc = "write" => tasks[t].status = "failed"
      /\ \A i \in DOMAIN tasks[t].updates : tasks[t].updates[i].status = "failed"
      /\ Done(t) => Len(tasks[t].updates) >= 1
      /\ (tasks[t].outfit_id \in DOMAIN lite /\ lastWrite[tasks[t].outfit_id] = t) =>
           lite[tasks[t].outfit_id].analysis_status = "failed"

C4_Witness ==
  \E t \in TaskIds :
    /\ Done(t)
    /\ tasks[t].kind = "parse"
    /\ tasks[t].updates[1].effect = "applied"
    /\ lite[tasks[t].outfit_id].analysis_status = "failed"

\* C5: when resolution, the provider call and normalization succeed, the
\* Driver writes completed and the result stored in the row its UPDATE is
\* applied to is the JSON text of the parsed object with its colors
\* canonicalized, for every parsed object.
C5_SuccessStoresObject ==
  \A t \in TaskIds :
    (Done(t) /\ tasks[t].kind = "success") =>
      LET id == tasks[t].outfit_id
      IN /\ tasks[t].updates[1].status = "completed"
         /\ (id \in DOMAIN lite /\ lastWrite[id] = t) =>
              /\ lite[id].analysis_status = "completed"
              /\ lite[id].analysis_results =
                   json_dumps(PyDict(CanonicalizeColors(tasks[t].parsed)))

\* C6: a record starts pending, its status only ever goes from pending to
\* completed or from pending to failed, a terminal status never changes,
\* and upload schedules at most one Driver per record.
StartPending(old, new) ==
  \A id \in DOMAIN new \ DOMAIN old : new[id].analysis_status = "pending"

OnlyFromPending(old, new) ==
  \A id \in DOMAIN old \cap DOMAIN new :
    old[id].analysis_status # new[id].analysis_status =>
      /\ old[id].analysis_status = "pending"
      /\ new[id].analysis_status \in {"completed", "failed"}

ScheduledOnce(ts) ==
  \A id \in OutfitIds :
    Cardinality({t \in 1..Len(ts) : ts[t].outfit_id = id /\ ts[t].origin = "upload"}) <= 1

C7_LastWriteWins ==
  /\ \A t \in TaskIds : tasks[t].pc = "write" => ENABLED Write(t, TRUE)
  /\ \A id \in DOMAIN lite :
       IF lastWrite[id] = 0
       THEN lite[id].analysis_status = "pending" /\ lite[id].analysis_results = NULL
       ELSE LET us == tasks[lastWrite[id]].updates
            IN /\ Len(us) >= 1
               /\ us[Len(us)].effect = "applied"
               /\ lite[id].analysis_status = us[Len(us)].status
               /\ lite[id].analysis_results = us[Len(us)].stored

C7_Witness ==
  \E t1 \in TaskIds, t2 \in TaskIds :
    /\ t1 # t2
    /\ tasks[t1].outfit_id = tasks[t2].outfit_id
    /\ Done(t1) /\ Done(t2)
    /\ tasks[t1].updates[1].effect = "applied"
    /\ tasks[t2].updates[1].effect = "applied"
    /\ tasks[t1].updates[1].status = "completed"
    /\ tasks[t1].updates[1].stored # NULL
    /\ tasks[t2].updates[1].status = "failed"
    /\ tasks[t2].updates[1].stored = NULL
    /\ lastWrite[tasks[t1].outfit_id] = t2

\* C8: every invocation issues exactly one status update: none before it
\* reaches its write, one once it has returned.
C8_ExactlyOneUpdate ==
  \A t \in TaskIds :
    /\ Done(t) => Len(tasks[t].updates) = 1
    /\ tasks[t].pc \in {"queued", "generate", "write"} => Len(tasks[t].updates) = 0

C8_Witness ==
  \E t \in TaskIds :
    /\ Done(t)
    /\ tasks[t].kind = "success"
    /\ Len(tasks[t].updates) = 1

\* C9: after the Driver has returned (its UPDATE having run without
\* error), the record it ran for, if it still exists, is never still
\* pending.
C9_NotPendingAfterReturn ==
  \A t \in TaskIds :
    (Done(t) /\ tasks[t].updates[Len(tasks[t].updates)].effect # "error") =>
      /\ tasks[t].outfit_id \in DOMAIN pg =>
           pg[tasks[t].outfit_id].analysis_status # "pending"
      /\ tasks[t].outfit_id \in DOMAIN lite =>
           lite[tasks[t].outfit_id].analysis_status # "pending"

\* C10: within one invocation the image is resolved at most once, the
\* provider is called at most once and not at all after a resolution
\* failure, and the status write is not attempted twice.
C10_NoSecondAttempt ==
  \A t \in TaskIds :
    /\ tasks[t].fetches <= 1
    /\ tasks[t].calls <= 1
    /\ Len(tasks[t].updates) <= 1
    /\ tasks[t].kind = "resolution" => tasks[t].calls = 0

C10_Witness ==
  \E t \in TaskIds :
    /\ Done(t)
    /\ tasks[t].kind = "resolution"
    /\ tasks[t].fetches = 1
    /\ tasks[t].calls = 0
\* ---------------------------------------------------------------------
\* C11: an upload inserts the record with status pending before the
\* Driver is scheduled, so every invocation an upload schedules is for a
\* record that exists and is pending; the upload response reports
\* analysis_status pending, and no step of the Driver changes a response
\* already sent.
\* ---------------------------------------------------------------------
ScheduledByUpload(t) ==
  /\ tasks'[t].origin = "upload"
  /\ t > Len(tasks)

DriverStep == \E t \in TaskIds : tasks'[t] # tasks[t]

C11_PendingBeforeScheduled ==
  [][ /\ \A t \in 1..Len(tasks') : ScheduledByUpload(t) =>
           LET id == tasks'[t].outfit_id
           IN /\ tasks'[t].pc = "queued"
              /\ id \in DOMAIN pg'
              /\ pg'[id].analysis_status = "pending"
              /\ pg'[id].analysis_results = NULL
              /\ resp' = UploadResp(200, id, "pending")
      /\ (resp'.op = "upload" /\ resp'.code = 200) => resp'.analysis_status = "pending"
      /\ DriverStep => resp' = resp
    ]_vars

\* the Driver an upload scheduled has ended with a failed write while the
\* response of that upload stands as it was sent
C11_Witness ==
  \E t \in TaskIds :
    /\ tasks[t].origin = "upload"
    /\ Done(t)
    /\ tasks[t].updates[1].status = "failed"
    /\ resp = UploadResp(200, tasks[t].outfit_id, "pending")

\* ---------------------------------------------------------------------
\* C12: when the record has been deleted while its Driver was running,
\* the Driver's update matches no row: the call returns without an
\* error, the record is not created again, and no table changes.
\* ---------------------------------------------------------------------
UpdateReturns(t) == tasks[t].pc = "write" /\ tasks'[t] # tasks[t]

C12_UpdateOfDeletedIsNoOp ==
  [][ \A t \in TaskIds :
        (UpdateReturns(t) /\ ~RecordExists(tasks[t].outfit_id)) =>
          /\ tasks'[t].pc = "done"
          /\ tasks'[t].updates[Len(tasks'[t].updates)].effect # "applied"
          /\ pg' = pg
          /\ lite' = lite
    ]_vars

\* the record of an upload was deleted before its Driver's update ran,
\* and the update has returned
C12_Witness ==
  \E t \in TaskIds :
    /\ tasks[t].origin = "upload"
    /\ Done(t)
    /\ tasks[t].updates = <<[status |-> "completed", stored |-> tasks[t].updates[1].stored,
                             effect |-> "norow", existed |-> FALSE]>>
    /\ ~RecordExists(tasks[t].outfit_id)
    /\ resp = DeleteResp(200)

\* ---------------------------------------------------------------------
\* C13: a step of the Driver for record r changes nothing but r's status
\* and result: no other record, no other table, and none of r's other
\* fields.  When r has a single invocation that has ended, r's row is what
\* that invocation's update made of it, whatever the Drivers of the other
\* records did in between.
\* ---------------------------------------------------------------------
SameButAnalysis(old, new) ==
  [new EXCEPT !.analysis_status = old.analysis_status,
              !.analysis_results = old.analysis_results] = old

SoleInvocation(t) ==
  \A u \in TaskIds : tasks[u].outfit_id = tasks[t].outfit_id => u = t

OwnOutcome(t) ==
  LET id == tasks[t].outfit_id
      applied == SelectSeq(tasks[t].updates, LAMBDA u : u.effect = "applied")
  IN id \in DOMAIN lite =>
       lite[id] = IF applied = <<>> THEN LegacyRow
                  ELSE UpdatedRow(LegacyRow, applied[Len(applied)].status,
                                  applied[Len(applied)].stored)

C13_DriverWritesOwnAnalysisOnly ==
  [][ /\ \A t \in TaskIds : tasks'[t] # tasks[t] =>
            LET r == tasks[t].outfit_id
            IN /\ pg' = pg /\ favs' = favs /\ assets' = assets
               /\ DOMAIN lite' = DOMAIN lite
               /\ \A i \in DOMAIN lite : i # r => lite'[i] = lite[i]
               /\ r \in DOMAIN lite => SameButAnalysis(lite[r], lite'[r])
      /\ \A t \in TaskIds : (SoleInvocation(t) /\ Done(t))' => OwnOutcome(t)'
    ]_vars

\* the Drivers of two different records have both ended, one with a
\* completed and one with a failed write applied to its row
C13_Witness ==
  \E t, u \in TaskIds :
    /\ tasks[t].outfit_id # tasks[u].outfit_id
    /\ Done(t) /\ Done(u)
    /\ lastWrite[tasks[t].outfit_id] = t /\ lastWrite[tasks[u].outfit_id] = u
    /\ lite[tasks[t].outfit_id].analysis_status = "completed"
    /\ lite[tasks[t].outfit_id].analysis_results # NULL
    /\ lite[tasks[u].outfit_id].analysis_status = "failed"

\* ---------------------------------------------------------------------
\* C14: once a record exists, only the Driver's update changes its
\* status or result; a record comes into being pending with no result,
\* through upload; tag, favorite, read, search, matching and recommendation
\* requests leave the status and result of every record as they were.
\* ---------------------------------------------------------------------
SameAnalysis(old, new) ==
  /\ new.analysis_status = old.analysis_status
  /\ new.analysis_results = old.analysis_results

C14_OnlyDriverChangesAnalysis ==
  [][ /\ \A id \in DOMAIN lite \cap DOMAIN lite' :
            ~SameAnalysis(lite[id], lite'[id]) =>
               \E t \in TaskIds : UpdateReturns(t) /\ tasks[t].outfit_id = id
      /\ \A id \in DOMAIN pg \cap DOMAIN pg' : SameAnalysis(pg[id], pg'[id])
      /\ \A id \in DOMAIN pg' \ DOMAIN pg :
            /\ pg'[id].analysis_status = "pending"
            /\ pg'[id].analysis_results = NULL
            /\ resp' = UploadResp(200, id, "pending")
      /\ DOMAIN lite' = DOMAIN lite
    ]_vars

\* a tag has been added to a record whose Driver wrote completed with a
\* result, and the row still carries both
C14_Witness ==
  \E id \in DOMAIN lite :
    /\ resp = OpResp("add_tag", 200)
    /\ lite[id].tags # <<>>
    /\ lite[id].analysis_status = "completed"
    /\ lite[id].analysis_results # NULL

\* ---------------------------------------------------------------------
\* C15: the Normalizer hands to the JSON parser exactly the part of the
\* response text from its first "{" to its last "}", both included.
\* When the text has no "{", or no "}", or its last "}" stands before its
\* first "{", the Normalizer fails without calling the parser and the
\* outcome handed to the Driver is a failed write.
\* ---------------------------------------------------------------------
Opens(text) == {i \in 1..Len(text) : text[i] = "{"}
Closes(text) == {i \in 1..Len(text) : text[i] = "}"}

HasObjectSpan(text) == \E i \in Opens(text), j \in Closes(text) : i < j

FirstToLast(text) ==
  LET a == CHOOSE i \in Opens(text) : \A k \in Opens(text) : i <= k
      b == CHOOSE j \in Closes(text) : \A k \in Closes(text) : j >= k
  IN [k \in 1..(b - a + 1) |-> text[a + k - 1]]

C15_ParsesFirstToLastBrace ==
  (probe.fn = "normalize" /\ probe.applied) =>
     IF HasObjectSpan(probe.text)
     THEN /\ probe.attempted
          /\ probe.json_str = FirstToLast(probe.text)
          /\ probe.out.kind \in {"parse", "canonicalize", "success"}
     ELSE /\ ~probe.attempted
          /\ probe.out.kind \in {"empty", "extraction"}
          /\ probe.out.status = "failed"
          /\ probe.out.results = PyNone

\* a text with two closing braces has been normalised: the parser was
\* given the text up to the second one, and refused it
C15_Witness ==
  /\ probe.fn = "normalize" /\ probe.applied
  /\ probe.text = <<"{", "}", "}">>
  /\ probe.attempted
  /\ probe.json_str = <<"{", "}", "}">>
  /\ probe.out.kind = "parse"

\* ---------------------------------------------------------------------
\* C16: every element of a canonicalized colors list is "#" followed by
\* six hexadecimal digits: an element that has that form once trimmed is
\* kept as given, a known colour name (trimmed, in any case) becomes the
\* table's code, and every other element becomes #9CA3AF.
\* ---------------------------------------------------------------------
HexDigits == Digits \cup {"a","b","c","d","e","f","A","B","C","D","E","F"}

IsHexColor(x) ==
  /\ Len(x) = 7
  /\ x[1] = "#"
  /\ \A i \in 2..7 : x[i] \in HexDigits

C16_CanonicalIsHex ==
  (probe.fn = "colors" /\ probe.n >= 1 /\ ~probe.raised) =>
     \A i \in 1..Len(probe.colors) :
       LET x == Strip(probe.colors[i])
           y == probe.once[i]
       IN /\ IsHexColor(y)
          /\ IsHexColor(x) => y = x
          /\ (~IsHexColor(x) /\ InColorMap(Lower(x))) => y = ColorMapGet(Lower(x))
          /\ (~IsHexColor(x) /\ ~InColorMap(Lower(x))) => y = FallbackGray

\* ---------------------------------------------------------------------
\* C17: canonicalization never fails: whatever the elements of a colors
\* list are, no invocation of the Driver ends failed because of this step.
\* ---------------------------------------------------------------------
C17_CanonicalizationNeverFails ==
  \A t \in TaskIds : tasks[t].kind # "canonicalize"

\* ---------------------------------------------------------------------
\* C18: canonicalization is idempotent: applied to its own result it
\* returns that result unchanged.
\* ---------------------------------------------------------------------
C18_Idempotent ==
  (probe.fn = "colors" /\ probe.n = 2) => probe.twice = probe.once

\* ---------------------------------------------------------------------
\* C19: a response text whose first-"{"-to-last-"}" slice is valid JSON
\* leads to a completed write whatever keys the object has, and the text
\* stored is the parsed object with no member added, dropped or changed
\* other than a colors list.
\* ---------------------------------------------------------------------
SliceWasValidJson(t) == tasks[t].kind \in {"success", "canonicalize"}

C19_ValidJsonIsStoredAsParsed ==
  \A t \in TaskIds :
    SliceWasValidJson(t) =>
      /\ tasks[t].pc = "write" => tasks[t].status = "completed"
      /\ \A i \in 1..Len(tasks[t].updates) :
           LET u == tasks[t].updates[i]
               parsed == tasks[t].parsed
           IN /\ u.status = "completed"
              /\ u.stored # NULL
              /\ DOMAIN u.stored.obj = DOMAIN parsed
              /\ \A k \in DOMAIN parsed :
                    (k # "colors" \/ ~parsed[k].list) => u.stored.obj[k] = parsed[k]

\* ---------------------------------------------------------------------
\* C20: a get-detail response reports the record's status, and its
\* analysis is null whenever that status is pending or failed, whatever
\* the result column holds; an analysis that is not null comes only with
\* status completed.
\* ---------------------------------------------------------------------
C20_AnalysisOnlyWhenCompleted ==
  (resp.op = "get" /\ resp.code = 200) =>
     /\ resp.id \in DOMAIN pg
     /\ resp.analysis_status =
          (IF pg[resp.id].analysis_status = "" THEN "pending"
           ELSE pg[resp.id].analysis_status)
     /\ resp.analysis_status \in {"pending", "failed"} => resp.analysis = PyNone
     /\ resp.analysis # PyNone => resp.analysis_status = "completed"

\* a failed record whose result column holds an error text was read: the
\* response carries no analysis
C20_Witness ==
  /\ resp.op = "get" /\ resp.code = 200
  /\ resp.analysis_status = "failed"
  /\ pg[resp.id].analysis_results = json_dumps(json_dumps(PyDict(ErrObj(DownloadFailed))))
  /\ resp.analysis = PyNone

\* ---------------------------------------------------------------------
\* C21: delete destroys the external image only in the step that deletes
\* the row, and that step answers 200: a delete that answers 404, 403 or
\* 500 leaves every row and every image in place, and a row deletion
\* answers 200 even when the image could not be destroyed.
\* ---------------------------------------------------------------------
C21_AssetOnlyAfterRowDeleted ==
  [][ /\ (resp' \in {DeleteResp(404), DeleteResp(403), DeleteResp(500)}) =>
            (pg' = pg /\ assets' = assets)
      /\ \A a \in assets \ assets' :
            /\ a \in DOMAIN pg \ DOMAIN pg'
            /\ resp' = DeleteResp(200)
      /\ (DOMAIN pg' # DOMAIN pg /\ DOMAIN pg' \subseteq DOMAIN pg) =>
            resp' = DeleteResp(200)
    ]_vars

\* a row was deleted with answer 200 while its image stayed in the cloud
\* store
C21_Witness ==
  /\ resp = DeleteResp(200)
  /\ \E a \in assets : a \notin DOMAIN pg

\* ---------------------------------------------------------------------
\* C22: a matching request for a record whose status is pending or
\* failed is answered 400 (or refused as blank, unknown or foreign) with
\* no provider call; a provider call is made only for a record whose
\* status is completed and whose stored result decodes to an object.
\* ---------------------------------------------------------------------
MatchingAnswered == resp' # resp /\ resp'.op = "matching" /\ resp'.id \in DOMAIN lite

C22_MatchingNeedsCompletedAnalysis ==
  [][ MatchingAnswered =>
        LET row == lite[resp'.id]
        IN /\ row.analysis_status \in {"pending", "failed"} =>
                (resp'.code \in {400, 403} /\ resp'.llm = <<>>)
           /\ resp'.llm # <<>> =>
                /\ row.analysis_status = "completed"
                /\ row.analysis_results # NULL
                /\ json_loads_text(row.analysis_results).py = "dict"
    ]_vars

\* ---------------------------------------------------------------------
\* C23: a seasonal request makes at most two provider calls and none
\* after a call that returned non-empty text; it stops short of two calls
\* only on such a text; and when two calls were made and neither gave
\* text the answer is 200 with the fallback body.
\* ---------------------------------------------------------------------
C23_SeasonalRetriesThenFallback ==
  resp.op = "seasonal" =>
    /\ Len(resp.llm) <= 2
    /\ \A i \in 1..(Len(resp.llm) - 1) : resp.llm[i] # "text"
    /\ (resp.code = 200 /\ Len(resp.llm) < 2) =>
          (Len(resp.llm) = 1 /\ resp.llm[1] = "text")
    /\ (Len(resp.llm) = 2 /\ resp.llm[2] # "text") =>
          (resp.code = 200 /\ resp.body = "fallback")

\* the first call raised, the second returned empty text, and the
\* answer was the fallback
C23_Witness ==
  /\ resp.op = "seasonal"
  /\ resp.llm = <<"raise", "empty">>
  /\ resp.code = 200
  /\ resp.body = "fallback"

\* ---------------------------------------------------------------------
\* C24: whatever an upload request carries, it schedules a Driver exactly
\* when it inserts a record, and the Driver is for that record; a request
\* with a blank user_id, no filename, an extension that is not allowed, or
\* a size above 10MB or below 1KB changes neither the cloud store nor the
\* table nor the schedule; a request whose cloud upload or insert fails
\* leaves the table and the schedule as they were.
\* ---------------------------------------------------------------------
UploadInvalid(user_id, file) ==
  \/ user_id = " "
  \/ file.filename = ""
  \/ FileExt(file.filename) \notin ALLOWED_EXTENSIONS
  \/ file.size > 10 * 1024 * 1024
  \/ file.size < 1024

UploadSchedules == \E t \in 1..Len(tasks') : ScheduledByUpload(t)

UploadInserts == DOMAIN pg' # DOMAIN pg

UploadAsClaimed(user_id, file, io) ==
  /\ UploadSchedules <=> UploadInserts
  /\ UploadSchedules =>
       /\ Len(tasks') = Len(tasks) + 1
       /\ DOMAIN pg' = DOMAIN pg \cup {tasks'[Len(tasks')].outfit_id}
       /\ tasks'[Len(tasks')].outfit_id \notin DOMAIN pg
  /\ UploadInvalid(user_id, file) =>
       (assets' = assets /\ pg' = pg /\ tasks' = tasks /\ resp'.code = 400)
  /\ (~UploadInvalid(user_id, file) /\ io # "ok") =>
       (pg' = pg /\ tasks' = tasks /\ resp'.code = 500)

C24_DriverIffInserted ==
  \A user_id \in UserInputs, file \in Files, io \in {"ok", "cloud_none", "db_error"} :
    ~ENABLED (UploadOutfit(user_id, file, io) /\ ~UploadAsClaimed(user_id, file, io))

\* an upload was refused because its INSERT failed after the image had
\* reached the cloud store: no record, no Driver
C24_Witness ==
  /\ resp = UploadResp(500, 0, "")
  /\ assets # {}
  /\ pg = <<>>
  /\ tasks = <<>>

\* tags that pass validation, so that the request gets as far as the
\* ownership test
OwnerTags == {<<"a">>, <<" ","A">>}

\* ---------------------------------------------------------------------
\* C25: for every record and every user who is not its owner, each of
\* get-detail, delete, add-favorite, get-tags, add-tag, remove-tag and
\* matching answers with an error code, carries no data of the record,
\* calls no provider, and leaves the tables and the cloud store as they
\* were, whatever the other inputs of the request are (tags: those that pass
\* validation).
\* ---------------------------------------------------------------------
NotOwner(outfit_id, user_id) ==
  /\ outfit_id \in DOMAIN pg \cup DOMAIN lite
  /\ RowOf(outfit_id).user_id # user_id

Refused ==
  /\ resp'.code \in {400, 403, 404, 500}
  /\ resp'.analysis = PyNone /\ resp'.analysis_status = ""
  /\ resp'.llm = <<>> /\ resp'.body = ""
  /\ UNCHANGED <<pg, lite, favs, assets, tasks>>

C25_NonOwnerIsRefused ==
  \A outfit_id \in OutfitIds, user_id \in Users :
    NotOwner(outfit_id, user_id) =>
      /\ \A dbOk \in BOOLEAN :
           ~ENABLED (GetOutfitDetail(outfit_id, user_id, dbOk) /\ ~Refused)
      /\ \A io \in {"ok", "db_error", "cloud_fail"} :
           ~ENABLED (DeleteOutfit(outfit_id, user_id, io) /\ ~Refused)
      /\ \A dbOk \in BOOLEAN :
           ~ENABLED (AddFavorite(outfit_id, user_id, dbOk) /\ ~Refused)
      /\ ~ENABLED (GetTags(outfit_id, user_id) /\ ~Refused)
      /\ \A tag \in OwnerTags, dbOk \in BOOLEAN :
           ~ENABLED (AddTag(outfit_id, user_id, tag, dbOk) /\ ~Refused)
      /\ \A tag \in OwnerTags, dbOk \in BOOLEAN :
           ~ENABLED (RemoveTag(outfit_id, user_id, tag, dbOk) /\ ~Refused)
      /\ \A reply \in ProviderReplies, usable \in BOOLEAN :
           ~ENABLED (GetMatchingSuggestions(outfit_id, user_id, reply, usable) /\ ~Refused)

\* another user's request for the matching suggestions of a tagged
\* record was refused with 403, while a favorited record is in the other
\* table
C25_Witness ==
  /\ resp = LlmResp("matching", 403, resp.id, <<>>, "")
  /\ resp.id \in DOMAIN lite
  /\ lite[resp.id].tags # <<>>
  /\ favs # <<>>

\* ---------------------------------------------------------------------
\* C26: the favorites table never holds two rows of one (user, outfit)
\* pair; an add for a pair that is in the table leaves the table as it is
\* and answers 200, and a remove for a pair that is not in the table
\* leaves it as it is and answers 200.
\* ---------------------------------------------------------------------
Favorited(user_id, outfit_id) == Contains(favs, FavRow(user_id, outfit_id))

C26_OneRowPerPair ==
  /\ \A i, j \in 1..Len(favs) : favs[i] = favs[j] => i = j
  /\ \A outfit_id \in OutfitIds, user_id \in Users :
       IF Favorited(user_id, outfit_id)
       THEN ~ENABLED (AddFavorite(outfit_id, user_id, TRUE)
                       /\ ~(favs' = favs /\ resp'.code = 200))
       ELSE ~ENABLED (RemoveFavorite(outfit_id, user_id, TRUE)
                       /\ ~(favs' = favs /\ resp'.code = 200))

\* an add was answered "already favorited" and the pair has one row
C26_Witness ==
  /\ resp = BodyResp("add_favorite", 200, "already")
  /\ Len(favs) = 1

\* ---------------------------------------------------------------------
\* C27: every favorites row names a record that exists, and a delete
\* request by the owner of an existing record is answered 200, removes
\* the record and leaves no favorites row that names it, whether or not
\* the record is favorited.
\* ---------------------------------------------------------------------
C27_OwnerCanAlwaysDelete ==
  /\ \A i \in 1..Len(favs) : favs[i].outfit_id \in DOMAIN pg
  /\ \A outfit_id \in DOMAIN pg :
       ~ENABLED (DeleteOutfit(outfit_id, pg[outfit_id].user_id, "ok")
                  /\ ~(/\ resp' = DeleteResp(200)
                       /\ outfit_id \notin DOMAIN pg'
                       /\ \A i \in 1..Len(favs') : favs'[i].outfit_id # outfit_id))

\* ---------------------------------------------------------------------
\* C28: the stored tag list of every record has no duplicate and at most
\* 15 entries, each equal to its own trimmed lower-case form, of 1 to 30
\* characters that are letters, digits, spaces or hyphens; and an add-tag
\* or remove-tag request that is not answered 200 (409 duplicate, 400
\* limit, 404 absent among them) leaves the stored tags as they were.
\* ---------------------------------------------------------------------
WellFormedTags(text) ==
  LET ts == TagList(text)
  IN /\ \A i, j \in 1..Len(ts) : ts[i] = ts[j] => i = j
     /\ Len(ts) <= 15
     /\ \A i \in 1..Len(ts) :
          /\ ts[i] = Lower(Strip(ts[i]))
          /\ Len(ts[i]) >= 1 /\ Len(ts[i]) <= 30
          /\ \A n \in 1..Len(ts[i]) : IsAlnum(ts[i][n]) \/ ts[i][n] \in {" ", "-"}

TagsRefused ==
  resp'.op \in {"add_tag", "remove_tag"} /\ resp'.code # 200

C28_TagsStayWellFormed ==
  /\ [](/\ \A id \in DOMAIN lite : WellFormedTags(lite[id].tags)
        /\ \A id \in DOMAIN pg : WellFormedTags(pg[id].tags))
  /\ [][TagsRefused => UNCHANGED <<lite, pg>>]_vars

\* two requests that were both answered 200, about one outfit and with
\* different tags, at least one of them an add-tag request
BothSucceeded(w1, w2) ==
  /\ w1 # w2
  /\ inflight[w1].code = 200 /\ inflight[w2].code = 200
  /\ inflight[w1].outfit_id = inflight[w2].outfit_id
  /\ inflight[w1].tag # inflight[w2].tag
  /\ "add_tag" \in {inflight[w1].op, inflight[w2].op}

\* C29: when two add-tag requests with different tags for one outfit are
\* handled at the same time and both answer 200, both tags are stored
\* afterwards, whatever the order of their reads and saves; an add and a
\* remove that both answer 200 are both reflected too: the added tag is
\* stored and the removed tag is not
C29_ConcurrentTagRequestsBothApply ==
  \A w1, w2 \in TagWorkers :
    BothSucceeded(w1, w2) =>
      LET stored == get_outfit_tags(inflight[w1].outfit_id)
      IN /\ inflight[w1].op = "add_tag" => Contains(stored, inflight[w1].tag)
         /\ inflight[w1].op = "remove_tag" => ~Contains(stored, inflight[w1].tag)

====
